---- MODULE Spec2Model ----
(***************************************************************************)
(* Project CodeNet problem extractor: the improved pipeline                *)
(* (complete/extract_all_problems_improved.py) and the first pipeline      *)
(* (notcomplete/extract_all_problems.py).                                  *)
(*                                                                         *)
(* Text is a TLA+ string and a character is a one-character string.  TLA+  *)
(* strings are ASCII, so the non-ASCII characters of the source are        *)
(* written with stand-in characters that occur nowhere else:               *)
(*    U+2264 (less-or-equal sign)  "~"      U+3002 (ideographic stop) "|"  *)
(*    U+5165 "@"   U+529B "#"   U+51FA "$"   U+5236 "%"   U+7D04 "&"       *)
(*    U+4F8B "!"                                                           *)
(***************************************************************************)
EXTENDS Integers, Sequences, FiniteSets, TLC

----------------------------------------------------------------------------
(* Characters and the str methods the scripts use.                         *)

Char(s, i) == SubSeq(s, i, i)

UpperLetters == "ABCDEFGHIJKLMNOPQRSTUVWXYZ"

LowerLetters == "abcdefghijklmnopqrstuvwxyz"

Digits == "0123456789"

CharsOf(s) == {Char(s, i) : i \in 1..Len(s)}

LE == "~"

JaStop == "|"

JaInput == "@#"

JaOutput == "$#"

JaConstraints == "%&"

JaSampleInput == "@#!"

JaSampleOutput == "$#!"

KanjiChars == {"@", "#", "$", "%", "&", "!"}

WhitespaceChars == {" ", "\n", "\t"}

DigitChars == CharsOf(Digits)

WordChars == CharsOf(UpperLetters) \cup CharsOf(LowerLetters) \cup DigitChars
               \cup {"_"} \cup KanjiChars

IsSpace(c) == c \in WhitespaceChars

\* str.lower() on one character
LowerChar(c) ==
    IF c \in CharsOf(UpperLetters)
    THEN Char(LowerLetters, CHOOSE i \in 1..26 : Char(UpperLetters, i) = c)
    ELSE c

\* str.lower() of the characters a..b of s, by halves
RECURSIVE LowerRange(_, _, _)
LowerRange(s, a, b) ==
    IF a > b THEN ""
    ELSE IF a = b THEN LowerChar(Char(s, a))
    ELSE LowerRange(s, a, (a + b) \div 2) \o LowerRange(s, (a + b) \div 2 + 1, b)

\* str.lower()
Lower(s) == LowerRange(s, 1, Len(s))

\* str.strip()
Strip(s) ==
    LET keep == {i \in 1..Len(s) : ~IsSpace(Char(s, i))}
    IN  IF keep = {} THEN ""
        ELSE LET a == CHOOSE i \in keep : \A j \in keep : i <= j
                 b == CHOOSE i \in keep : \A j \in keep : j <= i
             IN  SubSeq(s, a, b)

\* k in s
Contains(s, k) ==
    \E i \in 1..(Len(s) - Len(k) + 1) : SubSeq(s, i, i + Len(k) - 1) = k

\* s.find(sep) + 1: the first place sep occurs in s, 0 when it does not
FindFirst(s, sep) ==
    LET hits == {i \in 1..(Len(s) - Len(sep) + 1) : SubSeq(s, i, i + Len(sep) - 1) = sep}
    IN  IF hits = {} THEN 0 ELSE CHOOSE i \in hits : \A j \in hits : i <= j

\* s.split(sep)
RECURSIVE Split(_, _)
Split(s, sep) ==
    LET at == FindFirst(s, sep)
    IN  IF at = 0 THEN <<s>>
        ELSE <<SubSeq(s, 1, at - 1)>> \o Split(SubSeq(s, at + Len(sep), Len(s)), sep)

\* the lines without the empty piece after a last line break
DropEmptyLast(parts) ==
    IF parts[Len(parts)] = "" THEN SubSeq(parts, 1, Len(parts) - 1) ELSE parts

\* s.splitlines(): no empty last line
SplitLines(s) == DropEmptyLast(Split(s, "\n"))

\* sep.join(parts)
RECURSIVE Join(_, _)
Join(sep, parts) ==
    IF parts = <<>> THEN ""
    ELSE IF Len(parts) = 1 THEN parts[1]
    ELSE parts[1] \o sep \o Join(sep, Tail(parts))

\* [f(x) for x in seq if x]: the non-empty strings of seq, in order
RECURSIVE NonEmpty(_)
NonEmpty(seq) ==
    IF seq = <<>> THEN <<>>
    ELSE IF seq[1] = "" THEN NonEmpty(Tail(seq))
    ELSE <<seq[1]>> \o NonEmpty(Tail(seq))

\* the concatenation of a sequence of sequences
RECURSIVE Flatten(_)
Flatten(seqs) ==
    IF seqs = <<>> THEN <<>> ELSE seqs[1] \o Flatten(Tail(seqs))

\* phrase.strip() for phrase in ...
StripEach(phrases) == [j \in 1..Len(phrases) |-> Strip(phrases[j])]

\* phrase.strip() for line in lines for phrase in line.split("  "), the lines
\* stripped
Chunks(lines) ==
    Flatten([i \in 1..Len(lines) |-> StripEach(Split(Strip(lines[i]), "  "))])

\* the whitespace clean-up of clean_html_text, applied to soup.get_text()
CleanWhitespace(text) == Join(" ", NonEmpty(Chunks(SplitLines(text))))

----------------------------------------------------------------------------
(* Ordered dictionaries (the sections dict): a sequence of key/value       *)
(* pairs, keys distinct, in insertion order.                               *)

DictKeys(d) == [i \in 1..Len(d) |-> d[i].k]

DictHas(d, key) == \E i \in 1..Len(d) : d[i].k = key

\* d.get(key, default)
DictGet(d, key, default) ==
    IF DictHas(d, key) THEN d[CHOOSE i \in 1..Len(d) : d[i].k = key].v ELSE default

\* d[key] = value
DictSet(d, key, value) ==
    IF DictHas(d, key)
    THEN [i \in 1..Len(d) |-> IF d[i].k = key THEN [k |-> key, v |-> value] ELSE d[i]]
    ELSE Append(d, [k |-> key, v |-> value])

----------------------------------------------------------------------------
(* The parsed document, BeautifulSoup(html_content, 'html.parser'): the    *)
(* sequence of the nodes under the root.  An element holds one string      *)
(* (text), a "#text" node is a string between elements, and a "#comment"   *)
(* node holds the markup inside the comment (inner), itself parsed by      *)
(* extract_from_comments.                                                  *)

Element(tag, text) == [tag |-> tag, text |-> text, inner |-> <<>>]

TextNode(text) == [tag |-> "#text", text |-> text, inner |-> <<>>]

CommentNode(inner) == [tag |-> "#comment", text |-> "", inner |-> inner]

IsTag(n) == n.tag \notin {"#text", "#comment"}

\* str(soup) of a flat node sequence: the text of the file
RECURSIVE Serialize(_)
Serialize(nodes) ==
    IF nodes = <<>> THEN ""
    ELSE LET n == nodes[1]
             s == IF n.tag = "#text" THEN n.text
                  ELSE IF n.tag = "#comment" THEN "<!--" \o Serialize(n.inner) \o "-->"
                  ELSE "<" \o n.tag \o ">" \o n.text \o "</" \o n.tag \o ">"
         IN  s \o Serialize(Tail(nodes))

\* node.get_text(): the strings below the node; a comment is no text, and
\* the strings of script and style are none either
GetText(n) == IF n.tag \in {"#comment", "script", "style"} THEN "" ELSE n.text

\* soup.get_text()
RECURSIVE SoupText(_)
SoupText(nodes) ==
    IF nodes = <<>> THEN "" ELSE GetText(nodes[1]) \o SoupText(Tail(nodes))

\* soup.find(...): the place of the first node with Test, 0 for None
FindNode(nodes, Test(_)) ==
    LET hits == {i \in 1..Len(nodes) : Test(nodes[i])}
    IN  IF hits = {} THEN 0 ELSE CHOOSE i \in hits : \A j \in hits : i <= j

\* tag.string of an element: its one string, None (here "") without one;
\* string=<text> asks for equality, string=re.compile(...) for a search
StringIs(n, text) == n.text # "" /\ n.text = text

\* re.compile(re.escape(name), re.I).search(tag.string)
StringHasNoCase(n, name) == n.text # "" /\ Contains(Lower(n.text), Lower(name))

\* clean_html_text(html): script and style dropped, get_text(), whitespace
clean_html_text(nodes) ==
    IF nodes = <<>> THEN "" ELSE CleanWhitespace(SoupText(nodes))

\* the loop over current.next_sibling: the stripped, non-empty get_text() of
\* the nodes from place i on, up to the first node whose tag is in stop
RECURSIVE SiblingTexts(_, _, _)
SiblingTexts(nodes, i, stop) ==
    IF i > Len(nodes) \/ nodes[i].tag \in stop THEN <<>>
    ELSE LET text == Strip(GetText(nodes[i]))
         IN  (IF text # "" THEN <<text>> ELSE <<>>) \o SiblingTexts(nodes, i + 1, stop)

----------------------------------------------------------------------------
(* complete/extract_all_problems_improved.py                               *)

\* len(' '.join(description_parts)) < 50
SparseLimit == 50

\* if text and len(text) > 20: the text of a comment that is kept
Meaningful(text) == IF text # "" /\ Len(text) > 20 THEN text ELSE ""

extract_from_comments(soup) ==
    LET texts == [i \in 1..Len(soup) |->
                     IF soup[i].tag = "#comment"
                     THEN Meaningful(clean_html_text(soup[i].inner))
                     ELSE ""]
    IN  Join(" ", NonEmpty(texts))

TitleStoplist == {"Input", "Output", "Constraints", "Sample Input", "Sample Output"}

\* Strategy 1: the first h1, when it has text
TitleFromH1(soup) ==
    LET IsH1(n) == n.tag = "h1"
        at == FindNode(soup, IsH1)
    IN  IF at # 0 /\ Strip(GetText(soup[at])) # ""
        THEN clean_html_text(<<soup[at]>>) ELSE ""

\* for line in lines: the first line that may be a title, stripped
FirstTitleLine(lines) ==
    LET good == {i \in 1..Len(lines) :
                    /\ Strip(lines[i]) # ""
                    /\ ~Contains(lines[i], "Problem Statement")
                    /\ Len(Strip(lines[i])) < 100}
    IN  IF good # {} THEN Strip(lines[CHOOSE i \in good : \A j \in good : i <= j])
        ELSE ""

\* Strategy 2: a line of the text of the parent of <h3>Problem Statement</h3>
TitleFromProblemStatement(soup) ==
    LET IsPS(n) == n.tag = "h3" /\ StringIs(n, "Problem Statement")
    IN  IF FindNode(soup, IsPS) # 0
        THEN FirstTitleLine(Split(Strip(SoupText(soup)), "\n")) ELSE ""

\* Strategy 3: the first heading-like tag with a short text off the stoplist
TitleFromHeadings(soup) ==
    LET Good(n) == /\ n.tag \in {"h1", "h2", "h3", "title"}
                   /\ Strip(GetText(n)) # ""
                   /\ Len(Strip(GetText(n))) < 100
                   /\ Strip(GetText(n)) \notin TitleStoplist
        at == FindNode(soup, Good)
    IN  IF at # 0 THEN Strip(GetText(soup[at])) ELSE ""

\* for line in lines[:3]: the first sentence that may be a title, stripped
FirstTitleSentence(lines) ==
    LET good == {i \in 1..Len(lines) :
                    i <= 3 /\ Strip(lines[i]) # "" /\ Len(Strip(lines[i])) < 200}
    IN  IF good # {} THEN Strip(lines[CHOOSE i \in good : \A j \in good : i <= j])
        ELSE ""

\* Strategy 4: one of the first three sentences of the comments
TitleFromComments(comment_content) ==
    IF comment_content # "" THEN FirstTitleSentence(Split(comment_content, JaStop))
    ELSE ""

\* the first title when a strategy returned one, else what the next gives
OrElse(title, next) == IF title # "" THEN title ELSE next

\* the cascade with the heading scan before the Problem Statement lookup
ExtractTitleHeadingsFirst(soup) ==
    OrElse(TitleFromH1(soup),
        OrElse(TitleFromHeadings(soup),
            OrElse(TitleFromProblemStatement(soup),
                TitleFromComments(extract_from_comments(soup)))))

extract_title_flexible(soup) ==
    OrElse(TitleFromH1(soup),
        OrElse(TitleFromProblemStatement(soup),
            OrElse(TitleFromHeadings(soup),
                TitleFromComments(extract_from_comments(soup)))))

SectionWords == {"Input", "Output", "Constraints", "Sample"}

\* description, Strategy 1: the p and div texts, when a section heading exists
DescriptionFromBlocks(soup) ==
    LET IsFirstSection(n) ==
            /\ n.tag \in {"h2", "h3"}
            /\ \E w \in {"Input", "Constraints", JaInput, JaConstraints} :
                   StringHasNoCase(n, w)
        Part(n) ==
            IF /\ n.tag \in {"p", "div"}
               /\ Strip(GetText(n)) # ""
               /\ ~\E w \in SectionWords : Contains(GetText(n), w)
            THEN Strip(GetText(n)) ELSE ""
    IN  IF FindNode(soup, IsFirstSection) # 0
        THEN NonEmpty([i \in 1..Len(soup) |-> Part(soup[i])]) ELSE <<>>

\* Strategy 2 putting the comments in the place of what Strategy 1 found
DescriptionReplaced(parts, comment_content) ==
    IF Len(Join(" ", parts)) < SparseLimit /\ comment_content # ""
    THEN <<comment_content>> ELSE parts

\* description, Strategy 2: the comments, when Strategy 1 found little
DescriptionWithComments(parts, comment_content) ==
    IF Len(Join(" ", parts)) < SparseLimit /\ comment_content # ""
    THEN Append(parts, comment_content) ELSE parts

\* description, Strategy 3: what follows <h3>Problem Statement</h3>
DescriptionFromProblemStatement(soup, parts) ==
    LET IsPS(n) == n.tag = "h3" /\ StringIs(n, "Problem Statement")
        at == FindNode(soup, IsPS)
        next_section ==
            LET after == {i \in (at + 1)..Len(soup) : soup[i].tag \in {"h3", "hr"}}
            IN  IF after = {} THEN 0 ELSE CHOOSE i \in after : \A j \in after : i <= j
        upto == IF next_section = 0 THEN soup ELSE SubSeq(soup, 1, next_section - 1)
    IN  IF at = 0 THEN parts ELSE parts \o SiblingTexts(upto, at + 1, {})

section_mappings ==
    << [k |-> "input", v |-> <<"Input", JaInput, "input">>],
       [k |-> "output", v |-> <<"Output", JaOutput, "output">>],
       [k |-> "constraints", v |-> <<"Constraints", JaConstraints, "constraints">>],
       [k |-> "sample input",
        v |-> <<"Sample Input", "Sample Input 1", JaSampleInput, "sample input">>],
       [k |-> "sample output",
        v |-> <<"Sample Output", "Sample Output 1", JaSampleOutput, "sample output">>] >>

\* the content up to the next heading of the level of the header or above
SectionContentByLevel(soup, name) ==
    LET IsHeader(n) == n.tag \in {"h2", "h3"} /\ StringHasNoCase(n, name)
        header == FindNode(soup, IsHeader)
    IN  IF header = 0 THEN <<>>
        ELSE SiblingTexts(soup, header + 1,
                          IF soup[header].tag = "h2" THEN {"h1", "h2"}
                          ELSE {"h1", "h2", "h3"})

\* the content under the first h2 or h3 whose string has name, up to the
\* next h2 or h3
SectionContent(soup, name) ==
    LET IsHeader(n) == n.tag \in {"h2", "h3"} /\ StringHasNoCase(n, name)
        header == FindNode(soup, IsHeader)
    IN  IF header = 0 THEN <<>> ELSE SiblingTexts(soup, header + 1, {"h2", "h3"})

\* for name in possible_names: the first name whose header has content
RECURSIVE FirstSectionContent(_, _)
FirstSectionContent(soup, possible_names) ==
    IF possible_names = <<>> THEN <<>>
    ELSE IF SectionContent(soup, possible_names[1]) # <<>>
    THEN SectionContent(soup, possible_names[1])
    ELSE FirstSectionContent(soup, Tail(possible_names))

\* for section_key, possible_names in section_mappings.items()
RECURSIVE AddSections(_, _, _)
AddSections(soup, sections, mappings) ==
    IF mappings = <<>> THEN sections
    ELSE LET content_parts == FirstSectionContent(soup, mappings[1].v)
         IN  AddSections(soup,
                 IF content_parts # <<>>
                 THEN DictSet(sections, mappings[1].k, Join(" ", content_parts))
                 ELSE sections,
                 Tail(mappings))

\* if title: sections['title'] = title
WithTitle(title) == IF title # "" THEN DictSet(<<>>, "title", title) ELSE <<>>

extract_sections_from_html_improved(soup) ==
    LET description_parts ==
            DescriptionFromProblemStatement(soup,
                DescriptionWithComments(DescriptionFromBlocks(soup),
                                        extract_from_comments(soup)))
    IN  AddSections(soup,
                    DictSet(WithTitle(extract_title_flexible(soup)), "description",
                            Join(" ", description_parts)),
                    section_mappings)

----------------------------------------------------------------------------
(* The regular expressions of range_patterns and re.findall.  A pattern is *)
(* a sequence of items: a character class, taken once (many = FALSE) or    *)
(* greedily min or more times, and the number of the group it makes (0:    *)
(* none).                                                                  *)

One(cls) == [cls |-> cls, many |-> FALSE, min |-> 1, grp |-> 0]

Star(cls) == [cls |-> cls, many |-> TRUE, min |-> 0, grp |-> 0]

Plus(cls, grp) == [cls |-> cls, many |-> TRUE, min |-> 1, grp |-> grp]

CompareChars == {LE, "<", "="}

\* (\d+)\s*[<=]\s*\w+\s*[<=]\s*(\d+)
PatternBoth ==
    << Plus(DigitChars, 1), Star(WhitespaceChars), One(CompareChars),
       Star(WhitespaceChars), Plus(WordChars, 0), Star(WhitespaceChars),
       One(CompareChars), Star(WhitespaceChars), Plus(DigitChars, 2) >>

\* \w+\s*[<=]\s*(\d+)
PatternUpper ==
    << Plus(WordChars, 0), Star(WhitespaceChars), One(CompareChars),
       Star(WhitespaceChars), Plus(DigitChars, 1) >>

\* (\d+)\s*[<=]\s*\w+
PatternLower ==
    << Plus(DigitChars, 1), Star(WhitespaceChars), One(CompareChars),
       Star(WhitespaceChars), Plus(WordChars, 0) >>

range_patterns == <<PatternBoth, PatternUpper, PatternLower>>

\* how many characters of s from place pos on are in cls
RECURSIVE RunLength(_, _, _)
RunLength(s, pos, cls) ==
    IF pos <= Len(s) /\ Char(s, pos) \in cls THEN 1 + RunLength(s, pos + 1, cls) ELSE 0

\* The backtracking match of the items k.. of pat at place pos of s: <<>>
\* for no match, else <<[end, groups]>>.  TryLength gives item k the n
\* characters it may take, the most first.
RECURSIVE MatchHere(_, _, _, _), TryLength(_, _, _, _, _)
MatchHere(pat, k, s, pos) ==
    IF k > Len(pat) THEN <<[end |-> pos, groups |-> <<>>]>>
    ELSE LET run == RunLength(s, pos, pat[k].cls)
         IN  TryLength(pat, k, s, pos,
                       IF pat[k].many THEN run ELSE IF run >= 1 THEN 1 ELSE 0)

TryLength(pat, k, s, pos, n) ==
    IF n < pat[k].min THEN <<>>
    ELSE LET rest == MatchHere(pat, k + 1, s, pos + n)
         IN  IF rest # <<>>
             THEN <<[end |-> rest[1].end,
                     groups |-> (IF pat[k].grp # 0
                                 THEN <<SubSeq(s, pos, pos + n - 1)>> ELSE <<>>)
                                \o rest[1].groups]>>
             ELSE TryLength(pat, k, s, pos, n - 1)

\* re.findall(pattern, s), from place pos on: the groups of the matches,
\* leftmost first, none overlapping
RECURSIVE FindAllFrom(_, _, _)
FindAllFrom(pat, s, pos) ==
    LET starts == {p \in pos..Len(s) : MatchHere(pat, 1, s, p) # <<>>}
    IN  IF starts = {} THEN <<>>
        ELSE LET m == MatchHere(pat, 1, s, CHOOSE p \in starts : \A q \in starts : p <= q)
             IN  <<m[1].groups>> \o FindAllFrom(pat, s, m[1].end)

findall(pat, s) == FindAllFrom(pat, s, 1)

\* ' '.join(match) if isinstance(match, tuple) else str(match)
MatchText(match) == Join(" ", match)

\* the matches of the first pattern that has any, and no more
ExtendRangesFirstWins(ranges, patterns, constraints_text) ==
    LET hits == {k \in 1..Len(patterns) : findall(patterns[k], constraints_text) # <<>>}
    IN  IF hits = {} THEN ranges
        ELSE LET matches == findall(patterns[CHOOSE k \in hits : \A j \in hits : k <= j],
                                    constraints_text)
             IN  ranges \o [i \in 1..Len(matches) |-> MatchText(matches[i])]

\* for pattern in range_patterns: ranges.extend(...)
RECURSIVE ExtendRanges(_, _, _)
ExtendRanges(ranges, patterns, constraints_text) ==
    IF patterns = <<>> THEN ranges
    ELSE LET matches == findall(patterns[1], constraints_text)
         IN  ExtendRanges(ranges \o [i \in 1..Len(matches) |-> MatchText(matches[i])],
                          Tail(patterns), constraints_text)

\* constraints["inputConstraints"]["ranges"]
ExtractRanges(constraints_text) ==
    IF constraints_text = "" THEN ""
    ELSE LET ranges == ExtendRanges(<<>>, range_patterns, constraints_text)
         IN  IF ranges # <<>> THEN Join("; ", ranges) ELSE ""

----------------------------------------------------------------------------
(* The derived attributes of the improved pipeline.                        *)

\* sum(1 for kw in keywords if kw in content)
KeywordHits(keywords, content) ==
    Cardinality({i \in 1..Len(keywords) : Contains(content, keywords[i])})

\* the sample case with the texts as they are, not stripped
ExtractExamplesUntrimmed(sections) ==
    LET input_text  == DictGet(sections, "sample input", DictGet(sections, "input", ""))
        output_text == DictGet(sections, "sample output", DictGet(sections, "output", ""))
    IN  [sampleCases |->
            IF input_text # "" /\ output_text # ""
            THEN <<[input |-> input_text, output |-> output_text, explanation |-> ""]>>
            ELSE <<>>,
         testCases |-> <<>>]

extract_examples_improved(sections) ==
    LET input_text  == DictGet(sections, "sample input", DictGet(sections, "input", ""))
        output_text == DictGet(sections, "sample output", DictGet(sections, "output", ""))
    IN  [sampleCases |->
            IF input_text # "" /\ output_text # ""
            THEN <<[input |-> Strip(input_text), output |-> Strip(output_text),
                    explanation |-> ""]>>
            ELSE <<>>,
         testCases |-> <<>>]

\* s.isdigit()
IsDigitString(s) == s # "" /\ \A i \in 1..Len(s) : Char(s, i) \in DigitChars

DigitValue(c) == (CHOOSE i \in 1..10 : Char(Digits, i) = c) - 1

\* int(s) of a digit string
RECURSIVE ParseInt(_)
ParseInt(s) ==
    IF s = "" THEN 0
    ELSE 10 * ParseInt(SubSeq(s, 1, Len(s) - 1)) + DigitValue(Char(s, Len(s)))

\* int(problem_id[1:]) if problem_id[1:].isdigit() else 0
ProblemNum(problem_id) ==
    LET suffix == SubSeq(problem_id, 2, Len(problem_id))
    IN  IF IsDigitString(suffix) THEN ParseInt(suffix) ELSE 0

easy_keywords ==
    <<"sum", "count", "simple", "basic", "digit", "print", "calculate", "find">>

medium_keywords ==
    <<"algorithm", "sort", "search", "tree", "graph", "dynamic", "optimal", "sequence">>

hard_keywords ==
    <<"complex", "advanced", "polynomial", "exponential", "combinatorial", "optimization">>

HardThreshold == 3500

MediumThreshold == 2000

\* the final assessment with medium_score >= easy_score
AssessMediumOnTie(sections, problem_id) ==
    LET content == Lower(Join(" ", <<DictGet(sections, "title", ""),
                                     DictGet(sections, "description", ""),
                                     DictGet(sections, "constraints", "")>>))
        problem_num == ProblemNum(problem_id)
        constraints_text == DictGet(sections, "constraints", "")
        big == Contains(constraints_text, "10^9") \/ Contains(constraints_text, "10^8")
        mid == Contains(constraints_text, "10^6") \/ Contains(constraints_text, "10^5")
        easy_score == KeywordHits(easy_keywords, content)
        medium_score == KeywordHits(medium_keywords, content)
                          + (IF ~big /\ mid THEN 1 ELSE 0)
        hard_score == KeywordHits(hard_keywords, content) + (IF big THEN 2 ELSE 0)
    IN  IF hard_score > 0 \/ problem_num > HardThreshold THEN "Hard"
        ELSE IF medium_score >= easy_score \/ problem_num > MediumThreshold THEN "Medium"
        ELSE "Easy"

assess_difficulty_improved(sections, problem_id) ==
    LET content == Lower(Join(" ", <<DictGet(sections, "title", ""),
                                     DictGet(sections, "description", ""),
                                     DictGet(sections, "constraints", "")>>))
        problem_num == ProblemNum(problem_id)
        constraints_text == DictGet(sections, "constraints", "")
        big == Contains(constraints_text, "10^9") \/ Contains(constraints_text, "10^8")
        mid == Contains(constraints_text, "10^6") \/ Contains(constraints_text, "10^5")
        easy_score == KeywordHits(easy_keywords, content)
        medium_score == KeywordHits(medium_keywords, content)
                          + (IF ~big /\ mid THEN 1 ELSE 0)
        hard_score == KeywordHits(hard_keywords, content) + (IF big THEN 2 ELSE 0)
    IN  IF hard_score > 0 \/ problem_num > HardThreshold THEN "Hard"
        ELSE IF medium_score > easy_score \/ problem_num > MediumThreshold THEN "Medium"
        ELSE "Easy"

categories ==
    << [k |-> "Arrays & Strings",
        v |-> <<"array", "string", "text", "character", "sequence", "list">>],
       [k |-> "Math & Logic",
        v |-> <<"math", "number", "digit", "calculate", "formula", "equation",
                "arithmetic">>],
       [k |-> "Geometry",
        v |-> <<"triangle", "circle", "coordinate", "distance", "angle", "geometry",
                "point">>],
       [k |-> "Sorting & Searching",
        v |-> <<"sort", "search", "find", "order", "binary search", "maximum",
                "minimum">>],
       [k |-> "Dynamic Programming",
        v |-> <<"dynamic", "dp", "optimization", "optimal", "recursive">>],
       [k |-> "Trees & Graphs",
        v |-> <<"tree", "graph", "node", "edge", "path", "traversal", "connected">>],
       [k |-> "Greedy Algorithms", v |-> <<"greedy", "optimal choice", "interval">>],
       [k |-> "Simulation", v |-> <<"simulate", "game", "step", "process", "move">>],
       [k |-> "Implementation",
        v |-> <<"implement", "program", "algorithm", "output", "print">>] >>

\* the loop with score >= max_score: the last of the best categories wins
RECURSIVE BestCategoryLast(_, _, _, _)
BestCategoryLast(table, content, best_category, max_score) ==
    IF table = <<>> THEN best_category
    ELSE LET score == KeywordHits(table[1].v, content)
         IN  IF score >= max_score
             THEN BestCategoryLast(Tail(table), content, table[1].k, score)
             ELSE BestCategoryLast(Tail(table), content, best_category, max_score)

\* for category, keywords in table.items(): if score > max_score: ...
RECURSIVE BestCategory(_, _, _, _)
BestCategory(table, content, best_category, max_score) ==
    IF table = <<>> THEN best_category
    ELSE LET score == KeywordHits(table[1].v, content)
         IN  IF score > max_score
             THEN BestCategory(Tail(table), content, table[1].k, score)
             ELSE BestCategory(Tail(table), content, best_category, max_score)

categorize_problem_improved(sections) ==
    LET content == Lower(Join(" ", <<DictGet(sections, "title", ""),
                                     DictGet(sections, "description", "")>>))
    IN  BestCategory(categories, content, "Implementation", 0)

tag_keywords ==
    << [k |-> "array", v |-> <<"array", "list", "sequence">>],
       [k |-> "string", v |-> <<"string", "text", "character">>],
       [k |-> "math", v |-> <<"math", "number", "calculation", "arithmetic">>],
       [k |-> "geometry", v |-> <<"triangle", "circle", "coordinate", "geometry">>],
       [k |-> "sorting", v |-> <<"sort", "order", "maximum", "minimum">>],
       [k |-> "graph", v |-> <<"graph", "tree", "node", "path">>],
       [k |-> "simulation", v |-> <<"simulate", "game", "process">>],
       [k |-> "implementation", v |-> <<"implement", "program", "output">>] >>

\* for tag, keywords in table.items(): if any(...): tags.append(tag)
RECURSIVE MatchingTags(_, _)
MatchingTags(table, content_lower) ==
    IF table = <<>> THEN <<>>
    ELSE (IF \E i \in 1..Len(table[1].v) : Contains(content_lower, table[1].v[i])
          THEN <<table[1].k>> ELSE <<>>)
         \o MatchingTags(Tail(table), content_lower)

\* the matching tags, without the default
GenerateTagsNoDefault(table, sections) ==
    MatchingTags(table, Lower(DictGet(sections, "description", "") \o " "
                              \o DictGet(sections, "title", "")))

\* the tags of a record: the matching tags, ['implementation'] without any
GenerateTags(table, sections) ==
    LET content_lower == Lower(DictGet(sections, "description", "") \o " "
                               \o DictGet(sections, "title", ""))
        tags == MatchingTags(table, content_lower)
    IN  IF tags = <<>> THEN <<"implementation">> ELSE tags

\* the confidence without min(confidence, 1.0)
ConfidenceUncapped(has_title, long_description, has_samples, has_constraints) ==
    5 + (IF has_title THEN 1 ELSE 0) + (IF long_description THEN 2 ELSE 0)
      + (IF has_samples THEN 2 ELSE 0) + (IF has_constraints THEN 1 ELSE 0)

\* The confidence, in tenths: 0.5, +0.1, +0.2, +0.2, +0.1, min(.., 1.0).
\* With a title (every record has one) the float sums are the exact tenths.
ConfidenceTenths(has_title, long_description, has_samples, has_constraints) ==
    LET sum == 5 + (IF has_title THEN 1 ELSE 0) + (IF long_description THEN 2 ELSE 0)
                 + (IF has_samples THEN 2 ELSE 0) + (IF has_constraints THEN 1 ELSE 0)
    IN  IF sum < 10 THEN sum ELSE 10

LongDescription == 50

\* Path(file_path).stem: the name up to its last dot
Stem(name) ==
    LET dots == {i \in 2..Len(name) : Char(name, i) = "."}
    IN  IF dots = {} THEN name
        ELSE SubSeq(name, 1, (CHOOSE i \in dots : \A j \in dots : j <= i) - 1)

TemplateLanguages == <<"python", "cpp", "java", "javascript">>

\* What one call of extract_problem_improved did: the problem it returned
\* (<<>> for None), the error line it printed, the steps it ran and the
\* sections dict as extract_sections_from_html_improved returned it.
Outcome(problem, lines, ran, found) ==
    [problem |-> problem, printed |-> lines, ran |-> ran, found |-> found]

\* the problem object built from the sections dict, its title settled, and
\* from the examples found in it
ProblemObject(file_path, problem_id, sections, examples) ==
    [basicInfo |->
        [questionId |-> problem_id,
         title |-> DictGet(sections, "title", "Problem " \o problem_id),
         description |-> DictGet(sections, "description", ""),
         difficulty |-> assess_difficulty_improved(sections, problem_id),
         category |-> categorize_problem_improved(sections),
         tags |-> GenerateTags(tag_keywords, sections),
         source |-> file_path],
     constraints |->
        [timeLimit |-> "None", memoryLimit |-> "None",
         inputConstraints |->
            [description |-> DictGet(sections, "constraints", ""),
             ranges |-> ExtractRanges(DictGet(sections, "constraints", ""))],
         languageRestrictions |-> <<>>],
     examples |-> examples,
     codeTemplates |-> TemplateLanguages,
     metadata |->
        [extractedFrom |-> file_path,
         confidence |->
            ConfidenceTenths(DictGet(sections, "title", "") # "",
                             /\ DictGet(sections, "description", "") # ""
                             /\ Len(DictGet(sections, "description", "")) > LongDescription,
                             examples.sampleCases # <<>>,
                             DictGet(sections, "constraints", "") # ""),
         notes |-> "Extracted from Project CodeNet problem " \o problem_id]]

\* the components extracted from the sections dict, and the problem returned
EmitProblem(file_path, found, sections) ==
    Outcome(<<ProblemObject(file_path, Stem(file_path), sections,
                            extract_examples_improved(sections))>>,
            <<>>,
            <<"open", "sections", "examples", "difficulty", "category", "tags",
              "ranges", "confidence">>,
            found)

\* the content check with "or" for "and": a title or a description missing
\* is enough to return None
CheckContentEither(file_path, found) ==
    IF DictGet(found, "title", "") = "" \/ DictGet(found, "description", "") = ""
    THEN Outcome(<<>>, <<>>, <<"open", "sections">>, found)
    ELSE EmitProblem(file_path, found, found)

\* the synthetic title made of the file name, not of the problem ID
CheckContentFileName(file_path, found) ==
    IF DictGet(found, "title", "") = "" /\ DictGet(found, "description", "") = ""
    THEN Outcome(<<>>, <<>>, <<"open", "sections">>, found)
    ELSE EmitProblem(file_path, found,
                     IF DictGet(found, "title", "") = ""
                     THEN DictSet(found, "title", "Problem " \o file_path)
                     ELSE found)

\* the content check that leaves the sections dict without its title
CheckContentUntitled(file_path, found) ==
    IF DictGet(found, "title", "") = "" /\ DictGet(found, "description", "") = ""
    THEN Outcome(<<>>, <<>>, <<"open", "sections">>, found)
    ELSE EmitProblem(file_path, found, found)

\* Require at least some content; use the problem ID as title if none found
CheckContent(file_path, found) ==
    IF DictGet(found, "title", "") = "" /\ DictGet(found, "description", "") = ""
    THEN Outcome(<<>>, <<>>, <<"open", "sections">>, found)
    ELSE EmitProblem(file_path, found,
                     IF DictGet(found, "title", "") = ""
                     THEN DictSet(found, "title", "Problem " \o Stem(file_path))
                     ELSE found)

\* extract_problem_improved without its check for an empty file
ExtractUnchecked(file_path, content) ==
    IF ~content.readable
    THEN Outcome(<<>>, <<"Error processing " \o file_path>>, <<"open">>, <<>>)
    ELSE CheckContent(file_path, extract_sections_from_html_improved(content.soup))

\* The file at file_path is content: [readable, soup].  open() raises on a
\* file that cannot be read, and the except clause prints and returns None.
extract_problem_improved(file_path, content) ==
    IF ~content.readable
    THEN Outcome(<<>>, <<"Error processing " \o file_path>>, <<"open">>, <<>>)
    ELSE IF Strip(Serialize(content.soup)) = ""
    THEN Outcome(<<>>, <<>>, <<"open">>, <<>>)
    ELSE CheckContent(file_path, extract_sections_from_html_improved(content.soup))

----------------------------------------------------------------------------
(* notcomplete/extract_all_problems.py.  Its clean_html_text and its       *)
(* range_patterns are those of the improved script, character for          *)
(* character.                                                              *)

\* s.replace(old, '')
Remove(s, old) == Join("", Split(s, old))

\* for h2 in h2_tags: the content of each h2 up to the next h2, under the
\* lowercase text of the h2
RECURSIVE AddH2Sections(_, _, _)
AddH2Sections(soup, sections, i) ==
    IF i > Len(soup) THEN sections
    ELSE IF soup[i].tag # "h2" THEN AddH2Sections(soup, sections, i + 1)
    ELSE LET section_name == Lower(clean_html_text(<<soup[i]>>))
             content_parts == SiblingTexts(soup, i + 1, {"h2"})
         IN  AddH2Sections(soup, DictSet(sections, section_name, Join(" ", content_parts)),
                           i + 1)

extract_sections_from_html(soup) ==
    LET IsH1(n) == n.tag = "h1"
        IsBody(n) == n.tag = "body"
        title_tag == FindNode(soup, IsH1)
        withTitle == IF title_tag # 0
                     THEN DictSet(<<>>, "title", clean_html_text(<<soup[title_tag]>>))
                     ELSE <<>>
        current == IF title_tag # 0 THEN title_tag + 1
                   ELSE IF FindNode(soup, IsBody) # 0 THEN FindNode(soup, IsBody)
                   ELSE Len(soup) + 1
        description_parts == SiblingTexts(soup, current, {"h2"})
    IN  AddH2Sections(soup, DictSet(withTitle, "description", Join(" ", description_parts)), 1)

\* the pairing that keeps a case only when both its texts are there
ExtractExamplesBothTexts(sections) ==
    LET IsSampleInput(k) == Contains(Lower(k), "sample input")
        IsSampleOutput(k) ==
            Contains(Lower(k), "output for") \/ Contains(Lower(k), "sample output")
        sample_input_keys == SelectSeq(DictKeys(sections), IsSampleInput)
        sample_output_keys == SelectSeq(DictKeys(sections), IsSampleOutput)
        Case(i) ==
            LET input_text == Strip(DictGet(sections, sample_input_keys[i], ""))
                output_text == IF i <= Len(sample_output_keys)
                               THEN Strip(DictGet(sections, sample_output_keys[i], ""))
                               ELSE ""
            IN  IF input_text # "" /\ output_text # ""
                THEN <<[input |-> input_text, output |-> output_text, explanation |-> ""]>>
                ELSE <<>>
    IN  [sampleCases |-> Flatten([i \in 1..Len(sample_input_keys) |-> Case(i)]),
         testCases |-> <<>>]

extract_examples_from_sections(sections) ==
    LET IsSampleInput(k) == Contains(Lower(k), "sample input")
        IsSampleOutput(k) ==
            Contains(Lower(k), "output for") \/ Contains(Lower(k), "sample output")
        sample_input_keys == SelectSeq(DictKeys(sections), IsSampleInput)
        sample_output_keys == SelectSeq(DictKeys(sections), IsSampleOutput)
        Case(i) ==
            LET input_text == Strip(DictGet(sections, sample_input_keys[i], ""))
                output_text == IF i <= Len(sample_output_keys)
                               THEN Strip(DictGet(sections, sample_output_keys[i], ""))
                               ELSE ""
            IN  IF input_text # "" \/ output_text # ""
                THEN <<[input |-> input_text, output |-> output_text, explanation |-> ""]>>
                ELSE <<>>
    IN  [sampleCases |-> Flatten([i \in 1..Len(sample_input_keys) |-> Case(i)]),
         testCases |-> <<>>]

extract_constraints_from_sections(sections) ==
    LET hits == {i \in 1..Len(sections) : Contains(Lower(sections[i].k), "constraint")}
        constraints_text ==
            IF hits = {} THEN "" ELSE sections[CHOOSE i \in hits : \A j \in hits : i <= j].v
    IN  [timeLimit |-> "None", memoryLimit |-> "None",
         inputConstraints |->
            [description |-> constraints_text, ranges |-> ExtractRanges(constraints_text)],
         languageRestrictions |-> <<>>]

easy_indicators ==
    <<"sum", "count", "simple", "basic", "digit", "triangle", "maximum", "minimum">>

medium_indicators ==
    <<"algorithm", "sort", "search", "tree", "graph", "dynamic", "optimization">>

hard_indicators ==
    <<"complex", "advanced", "polynomial", "np-hard", "exponential", "combinatorial">>

FirstHardThreshold == 3000

FirstMediumThreshold == 1000

assess_difficulty(sections, problem_id) ==
    LET description_lower == Lower(DictGet(sections, "description", "") \o " "
                                   \o DictGet(sections, "title", ""))
        easy_score == KeywordHits(easy_indicators, description_lower)
        medium_score == KeywordHits(medium_indicators, description_lower)
        hard_score == KeywordHits(hard_indicators, description_lower)
        problem_num == ProblemNum(problem_id)
    IN  IF hard_score > 0 \/ problem_num > FirstHardThreshold THEN "Hard"
        ELSE IF medium_score > easy_score \/ problem_num > FirstMediumThreshold
        THEN "Medium"
        ELSE "Easy"

first_categories ==
    << [k |-> "Arrays & Strings",
        v |-> <<"array", "string", "text", "character", "sequence">>],
       [k |-> "Math & Logic",
        v |-> <<"math", "number", "digit", "calculate", "formula", "equation">>],
       [k |-> "Geometry",
        v |-> <<"triangle", "circle", "coordinate", "distance", "angle", "geometry">>],
       [k |-> "Sorting & Searching",
        v |-> <<"sort", "search", "find", "order", "binary search">>],
       [k |-> "Dynamic Programming",
        v |-> <<"dynamic", "dp", "optimization", "maximum", "minimum">>],
       [k |-> "Trees & Graphs",
        v |-> <<"tree", "graph", "node", "edge", "path", "traversal">>],
       [k |-> "Greedy Algorithms", v |-> <<"greedy", "optimal", "choice">>],
       [k |-> "Simulation", v |-> <<"simulate", "game", "step", "process">>],
       [k |-> "Implementation", v |-> <<"implement", "program", "algorithm">>] >>

categorize_problem(sections) ==
    LET content == Lower(DictGet(sections, "description", "") \o " "
                         \o DictGet(sections, "title", ""))
    IN  BestCategory(first_categories, content, "Implementation", 0)

first_tag_keywords ==
    << [k |-> "array", v |-> <<"array", "list">>],
       [k |-> "string", v |-> <<"string", "text", "character">>],
       [k |-> "math", v |-> <<"math", "number", "calculation">>],
       [k |-> "geometry", v |-> <<"triangle", "circle", "coordinate">>],
       [k |-> "sorting", v |-> <<"sort", "order">>],
       [k |-> "graph", v |-> <<"graph", "tree", "node">>],
       [k |-> "simulation", v |-> <<"simulate", "game">>],
       [k |-> "implementation", v |-> <<"implement", "program">>] >>

\* the problem object built from the sections dict and the examples found
ProblemObjectFirst(file_path, problem_id, sections, examples) ==
    [basicInfo |->
        [questionId |-> problem_id,
         title |-> Remove(Remove(DictGet(sections, "title", "Problem " \o problem_id),
                                 "Problem F: "), "Problem A: "),
         description |-> DictGet(sections, "description", ""),
         difficulty |-> assess_difficulty(sections, problem_id),
         category |-> categorize_problem(sections),
         tags |-> GenerateTags(first_tag_keywords, sections),
         source |-> file_path],
     constraints |-> extract_constraints_from_sections(sections),
     examples |-> examples,
     codeTemplates |-> TemplateLanguages,
     metadata |->
        [extractedFrom |-> file_path,
         confidence |-> IF DictGet(sections, "description", "") # ""
                           /\ examples.sampleCases # <<>>
                        THEN 8 ELSE 6,
         notes |-> "Extracted from Project CodeNet problem " \o problem_id]]

\* if not sections.get('title'): return None; else the problem
CheckTitle(file_path, sections) ==
    IF DictGet(sections, "title", "") = ""
    THEN Outcome(<<>>, <<>>, <<"open", "sections">>, sections)
    ELSE Outcome(<<ProblemObjectFirst(file_path, Stem(file_path), sections,
                                      extract_examples_from_sections(sections))>>,
                 <<>>,
                 <<"open", "sections", "examples", "constraints", "difficulty",
                   "category", "tags">>,
                 sections)

extract_problem_from_html_file(file_path, content) ==
    IF ~content.readable
    THEN Outcome(<<>>, <<"Error processing " \o file_path>>, <<"open">>, <<>>)
    ELSE IF Strip(Serialize(content.soup)) = ""
    THEN Outcome(<<>>, <<>>, <<"open">>, <<>>)
    ELSE CheckTitle(file_path, extract_sections_from_html(content.soup))

----------------------------------------------------------------------------
(* sorted(html_files): paths of one directory compare as their names do,   *)
(* character by character in code point order.                             *)

\* the printable ASCII characters in code point order (all but the backquote,
\* which a TLA+ string cannot hold)
AsciiOrder ==
    " !\"#$%&'()*+,-./0123456789:;<=>?@ABCDEFGHIJKLMNOPQRSTUVWXYZ[\\]^_abcdefghijklmnopqrstuvwxyz{|}~"

Ord(c) == CHOOSE i \in 1..Len(AsciiOrder) : Char(AsciiOrder, i) = c

StrLess(a, b) ==
    \E i \in 1..Len(b) :
        /\ i - 1 <= Len(a)
        /\ SubSeq(a, 1, i - 1) = SubSeq(b, 1, i - 1)
        /\ \/ Len(a) = i - 1
           \/ Len(a) >= i /\ Ord(Char(a, i)) < Ord(Char(b, i))

RECURSIVE sorted(_)
sorted(names) ==
    IF names = <<>> THEN <<>>
    ELSE LET least == CHOOSE i \in 1..Len(names) :
                          \A j \in 1..Len(names) : ~StrLess(names[j], names[i])
         IN  <<names[least]>>
             \o sorted(SubSeq(names, 1, least - 1) \o SubSeq(names, least + 1, Len(names)))

----------------------------------------------------------------------------
(* The files of doc/problem_descriptions.                                  *)

WhitespaceDocument == <<TextNode(" \n"), TextNode("\n")>>

Corpus ==
    << <<>>,
       WhitespaceDocument,
       << Element("p", "Only a paragraph.") >>,
       << Element("h1", " Add  Two\n Numbers ") >>,
       << Element("h2", "Input"), Element("p", "Two integers a and b.") >>,
       << Element("h1", "Shortest Path"),
          Element("p", "Find the shortest path between two nodes of a connected graph."),
          Element("h2", "Constraints"), Element("p", "1 ~ N ~ 10^5"),
          Element("h3", "Sample Input"), Element("pre", " 3 4\n"),
          Element("h3", "Sample Output"), Element("pre", "7") >>,
       << CommentNode(<<Element("p", "Compute the sum of the list| Print it|")>>),
          TextNode("\n") >>,
       << Element("h3", "Problem Statement"), TextNode("\n"),
          Element("p", "Sort the given sequence of numbers in ascending order please."),
          Element("hr", ""),
          Element("h3", "Constraints"), Element("p", "1 <= N <= 10^9") >>,
       << Element("h1", "Sort Numbers"),
          Element("h2", "Output"), Element("p", "The sorted numbers.") >>,
       << Element("h1", "Problem A: Triangle Game"),
          Element("p", "Simulate the game and print the maximum."),
          Element("h2", "Input"), Element("pre", "3"),
          Element("h2", "Output"), Element("pre", "1"),
          Element("h2", "Constraints"), Element("p", "1 ~ N ~ 100"),
          Element("h2", "Sample Input"), Element("pre", "3\n"),
          Element("h2", "Output for the Sample Input"), Element("pre", "1") >>,
       << Element("h1", "Hello"),
          Element("h2", "Input"),
          Element("p", "Given two values a and b, tell whether a is larger than b or not.") >>,
       << Element("h1", ""), Element("h2", "Input"), Element("h2", "Sample Output") >>,
       << Element("p", "Contest 7"), TextNode("\n"),
          Element("h1", "Median"), TextNode("\n"),
          CommentNode(<<Element("p", "Find the median of the given numbers| Easy|")>>),
          Element("h3", "Problem Statement"), TextNode("\n"),
          Element("p", "Output the median value.") >>,
       << Element("h1", ""), Element("h2", "Input"),
          Element("h2", "Notes on Scoring"), Element("p", "Partial points are given.") >>,
       << Element("h1", "Sum"),
          Element("h2", "Input"), Element("p", "Add them."),
          CommentNode(<<Element("p", "Compute the total of all the values given.")>>) >>,
       << Element("h1", "Sum"),
          Element("p", "Read the whole list of values and report the total of them all."),
          Element("h2", "Input"), Element("pre", "3"),
          CommentNode(<<Element("p", "Compute the total of all the values given.")>>) >>,
       << Element("h1", "Levels"),
          Element("h2", "Input"), Element("p", "First line."),
          Element("h3", "Format"), Element("p", "Second line."),
          Element("h2", "Output"), Element("p", "Result.") >>,
       << Element("h3", "Input"), Element("p", "One."),
          Element("h1", "Big"), Element("p", "Two."),
          Element("h2", "Output"), Element("p", "Three.") >> >>

ContentIds == 0..Len(Corpus)

\* content 0 is a file open() cannot read
Content(c) ==
    IF c = 0 THEN [readable |-> FALSE, soup |-> <<>>]
    ELSE [readable |-> TRUE, soup |-> Corpus[c]]

\* the contents the files of a batch run are drawn from: an unreadable file,
\* a blank one, two without content enough and two that give a record
LoopContentIds == {0, 2, 5, 6, 11, 12}

FileNames == {"p02500.html", "p1-a.html", "p1.html"}

MaxFiles == 2

\* every list of at most MaxFiles distinct names: what glob may return
RECURSIVE Listings(_)
Listings(n) ==
    IF n = 0 THEN {<<>>}
    ELSE LET shorter == Listings(n - 1)
         IN  shorter \cup {Append(l, f) : l \in shorter, f \in FileNames}

GlobResults ==
    {l \in Listings(MaxFiles) : \A i, j \in 1..Len(l) : i # j => l[i] # l[j]}

\* extract_problem_improved on every file there may be
Extracted ==
    [f \in FileNames |->
        [c \in LoopContentIds |-> extract_problem_improved(f, Content(c))] @@ <<>>]
    @@ <<>>

\* extract_problem_from_html_file on every file there may be
ExtractedFirst ==
    [f \in FileNames |->
        [c \in LoopContentIds |-> extract_problem_from_html_file(f, Content(c))] @@ <<>>]
    @@ <<>>

----------------------------------------------------------------------------
(* The arguments the functions of the scripts are called on, one by one.   *)
(* An optional text is <<>> (the key is absent) or <<text>>.               *)

\* the sections dict with the keys that are there, in the order the improved
\* script fills them
MakeSections(title, description, input, output, constraints, sample_input, sample_output) ==
    LET Item(key, text) == IF text = <<>> THEN <<>> ELSE <<[k |-> key, v |-> text[1]]>>
    IN  Item("title", title) \o Item("description", description)
        \o Item("input", input) \o Item("output", output)
        \o Item("constraints", constraints)
        \o Item("sample input", sample_input) \o Item("sample output", sample_output)

UnitTitles == {<<>>, <<"Hello">>, <<"Sort Numbers">>, <<"COMPLEX Graph Path">>}

UnitDescriptions ==
    {<<>>, <<"Print the maximum of a list.">>,
     <<"Find the optimal order in which to search the tree and sort the sequence.">>,
     <<"Calculate the sum and count each digit.">>}

UnitConstraints ==
    {<<>>, <<"1 ~ N ~ 100">>, <<"1 ~ N ~ 100\n2 < M < 50">>,
     <<"1 ~ A ~ 10^9, B ~ 10^5">>, <<"N ~ 10^6">>, <<"no limits">>, <<"1<=N<=100">>}

UnitIds == {"p00001", "p02000", "p02001", "p03500", "p03501", "p9999x", "p"}

UnitInputs == {<<>>, <<"">>, <<"Two integers.">>}

UnitOutputs == {<<>>, <<"">>, <<"Their sum.">>}

UnitSampleInputs == {<<>>, <<"">>, <<" ">>, <<" 3 4\n">>}

UnitSampleOutputs == {<<>>, <<"">>, <<"\n">>, <<"7 ">>}

UnitFiles == FileNames \cup {"p03600.html"}

\* a sections dict of the first script: the keys are the lowercase texts of
\* the h2 headings, in the order of the document
MakeFirstSections(input_1, output_1, input_2, output_2) ==
    LET Item(key, text) == IF text = <<>> THEN <<>> ELSE <<[k |-> key, v |-> text[1]]>>
    IN  <<[k |-> "title", v |-> "Hello"], [k |-> "description", v |-> "Echo the input."]>>
        \o Item("sample input 1", input_1) \o Item("sample output 1", output_1)
        \o Item("sample input 2", input_2) \o Item("sample output 2", output_2)

UnitFirstInputs == {<<>>, <<"">>, <<"1 2">>}

UnitFirstOutputs == {<<>>, <<"">>, <<"3">>}

UnitSecondInputs == {<<>>, <<"">>, <<"4 5">>}

UnitSecondOutputs == {<<>>, <<"9">>}

\* the arguments of a function of the sections dict (file_path is ""), or
\* those of a function of a file
Arguments(sections, problem_id, file_path, content) ==
    [sections |-> sections, problem_id |-> problem_id, file_path |-> file_path,
     content |-> content]

\* dicts that differ in their texts, dicts that differ in their samples, and
\* the files
UnitArguments ==
    {Arguments(MakeSections(t, d, <<>>, <<>>, c, <<>>, <<>>), id, "", 0) :
        t \in UnitTitles, d \in UnitDescriptions, c \in UnitConstraints, id \in UnitIds}
    \cup
    {Arguments(MakeSections(<<"Hello">>, <<"">>, i, o, <<>>, si, so), "p00001", "", 0) :
        i \in UnitInputs, o \in UnitOutputs,
        si \in UnitSampleInputs, so \in UnitSampleOutputs}
    \cup
    {Arguments(MakeFirstSections(i1, o1, i2, o2), "p00001", "", 0) :
        i1 \in UnitFirstInputs, o1 \in UnitFirstOutputs,
        i2 \in UnitSecondInputs, o2 \in UnitSecondOutputs}
    \cup
    {Arguments(<<>>, "", f, c) : f \in UnitFiles, c \in ContentIds}

NoArguments == Arguments(<<>>, "", "", 0)

----------------------------------------------------------------------------
(* main() of the improved script and main() of the first script.           *)

VARIABLES
    script,               \* which script runs: "improved" or "first"
    given,                \* the arguments of a function called on its own
    applied,              \* that function and what it returned; <<>> before
    problems_dir_exists,  \* problems_dir.exists()
    disk,                 \* what each file of html_files holds: a ContentIds
    html_files,           \* list(problems_dir.glob("p*.html"))
    todo,                 \* what the for loop over sorted(html_files) has left
    pc,                   \* "start", "loop", "done"
    problems,
    processed,
    skipped,
    printed,              \* the "Error processing" lines printed
    last,                 \* the Outcome of the last extract_problem_improved call
    summary               \* the output file and the tallies; <<>> before

vars == <<script, given, applied, problems_dir_exists, disk, html_files, todo, pc,
          problems, processed, skipped, printed, last, summary>>

NoCall == Outcome(<<>>, <<>>, <<>>, <<>>)

Init ==
    /\ script \in {"improved", "first"}
    /\ given = NoArguments
    /\ applied = <<>>
    /\ problems_dir_exists \in BOOLEAN
    /\ html_files \in (IF problems_dir_exists THEN GlobResults ELSE {<<>>})
    /\ disk \in [{html_files[i] : i \in 1..Len(html_files)} -> LoopContentIds]
    /\ todo = <<>>
    /\ pc = "start"
    /\ problems = <<>>
    /\ processed = 0
    /\ skipped = 0
    /\ printed = <<>>
    /\ last = NoCall
    /\ summary = <<>>

\* if not problems_dir.exists(): print(...); return
NoDirectory ==
    /\ pc = "start"
    /\ ~problems_dir_exists
    /\ pc' = "done"
    /\ UNCHANGED <<script, given, applied, problems_dir_exists, disk, html_files, todo,
                   problems, processed, skipped, printed, last, summary>>

\* for html_file in sorted(html_files):
StartLoop ==
    /\ pc = "start"
    /\ problems_dir_exists
    /\ todo' = sorted(html_files)
    /\ pc' = "loop"
    /\ UNCHANGED <<script, given, applied, problems_dir_exists, disk, html_files,
                   problems, processed, skipped, printed, last, summary>>

\* the loop body that counts no skip for a call that printed an error
CollectUncounted(call) ==
    /\ last' = call
    /\ printed' = printed \o call.printed
    /\ IF call.problem # <<>>
       THEN problems' = Append(problems, call.problem[1]) /\ skipped' = skipped
       ELSE problems' = problems
            /\ skipped' = IF call.printed # <<>> THEN skipped ELSE skipped + 1

\* problem = extract_problem_improved(html_file); if problem: ... else: ...
Collect(call) ==
    /\ last' = call
    /\ printed' = printed \o call.printed
    /\ IF call.problem # <<>>
       THEN problems' = Append(problems, call.problem[1]) /\ skipped' = skipped
       ELSE problems' = problems /\ skipped' = skipped + 1

\* problem = extract_problem_from_html_file(html_file); if problem: ...
CollectFirst(call) ==
    /\ last' = call
    /\ printed' = printed \o call.printed
    /\ IF call.problem # <<>>
       THEN problems' = Append(problems, call.problem[1])
       ELSE problems' = problems

\* one turn of the loop of the improved script
ProcessFile ==
    /\ script = "improved"
    /\ pc = "loop"
    /\ todo # <<>>
    /\ Collect(Extracted[Head(todo)][disk[Head(todo)]])
    /\ processed' = processed + 1
    /\ todo' = Tail(todo)
    /\ UNCHANGED <<script, given, applied, problems_dir_exists, disk, html_files, pc,
                   summary>>

\* one turn of the loop of the first script, which counts no skips
ProcessFileFirst ==
    /\ script = "first"
    /\ pc = "loop"
    /\ todo # <<>>
    /\ CollectFirst(ExtractedFirst[Head(todo)][disk[Head(todo)]])
    /\ processed' = processed + 1
    /\ todo' = Tail(todo)
    /\ UNCHANGED <<script, given, applied, problems_dir_exists, disk, html_files, pc,
                   skipped, summary>>

Count(seq, Test(_)) == Cardinality({i \in 1..Len(seq) : Test(seq[i])})

\* after the loop of the first script: the output file and the distributions
FinishFirst ==
    /\ script = "first"
    /\ pc = "loop"
    /\ todo = <<>>
    /\ LET diffs == {problems[i].basicInfo.difficulty : i \in 1..Len(problems)}
           cats == {problems[i].basicInfo.category : i \in 1..Len(problems)}
       IN  summary' =
             <<[output |-> [problems |-> problems],
                difficulties |->
                    [d \in diffs |-> LET Is(p) == p.basicInfo.difficulty = d
                                     IN  Count(problems, Is)],
                categories |->
                    [c \in cats |-> LET Is(p) == p.basicInfo.category = c
                                    IN  Count(problems, Is)]]>>
    /\ pc' = "done"
    /\ UNCHANGED <<script, given, applied, problems_dir_exists, disk, html_files, todo,
                   problems, processed, skipped, printed, last>>

\* after the loop: the output file and the summary statistics
Finish ==
    /\ script = "improved"
    /\ pc = "loop"
    /\ todo = <<>>
    /\ LET High(p) == p.metadata.confidence >= 8
           Medium(p) == ~High(p) /\ p.metadata.confidence >= 6
           Low(p) == ~High(p) /\ ~Medium(p)
           diffs == {problems[i].basicInfo.difficulty : i \in 1..Len(problems)}
           cats == {problems[i].basicInfo.category : i \in 1..Len(problems)}
       IN  summary' =
             <<[output |-> [problems |-> problems],
                difficulties |->
                    [d \in diffs |-> LET Is(p) == p.basicInfo.difficulty = d
                                     IN  Count(problems, Is)],
                categories |->
                    [c \in cats |-> LET Is(p) == p.basicInfo.category = c
                                    IN  Count(problems, Is)],
                confidence_levels |->
                    [high |-> Count(problems, High), medium |-> Count(problems, Medium),
                     low |-> Count(problems, Low)]]>>
    /\ pc' = "done"
    /\ UNCHANGED <<script, given, applied, problems_dir_exists, disk, html_files, todo,
                   problems, processed, skipped, printed, last>>

Next ==
    NoDirectory \/ StartLoop \/ ProcessFile \/ ProcessFileFirst \/ Finish \/ FinishFirst

Spec == Init /\ [][Next]_vars

----------------------------------------------------------------------------
(* The functions of the scripts, each called on its own on the arguments   *)
(* given.                                                                  *)

InitUnit ==
    /\ given \in UnitArguments
    /\ applied = <<>>
    /\ script = "improved"
    /\ problems_dir_exists = FALSE
    /\ html_files = <<>>
    /\ disk = <<>>
    /\ todo = <<>>
    /\ pc = "done"
    /\ problems = <<>>
    /\ processed = 0
    /\ skipped = 0
    /\ printed = <<>>
    /\ last = NoCall
    /\ summary = <<>>

Return(function, value) ==
    /\ applied = <<>>
    /\ applied' = <<[function |-> function, value |-> value]>>
    /\ UNCHANGED <<script, given, problems_dir_exists, disk, html_files, todo, pc,
                   problems, processed, skipped, printed, last, summary>>

OnSections == given.file_path = ""

OnFile == given.file_path # ""

CallExtract ==
    /\ OnFile
    /\ Return("extract_problem_improved",
              extract_problem_improved(given.file_path, Content(given.content)))

CallExtractFirst ==
    /\ OnFile
    /\ Return("extract_problem_from_html_file",
              extract_problem_from_html_file(given.file_path, Content(given.content)))

\* the files whose text is read and is not blank: those that are parsed
OnParsedFile ==
    /\ OnFile
    /\ Content(given.content).readable
    /\ Strip(Serialize(Content(given.content).soup)) # ""

CallTitle ==
    /\ OnParsedFile
    /\ Return("extract_title_flexible", extract_title_flexible(Content(given.content).soup))

CallSections ==
    /\ OnParsedFile
    /\ Return("extract_sections_from_html_improved",
              extract_sections_from_html_improved(Content(given.content).soup))

CallExamples ==
    /\ OnSections
    /\ Return("extract_examples_improved", extract_examples_improved(given.sections))

CallDifficulty ==
    /\ OnSections
    /\ Return("assess_difficulty_improved",
              assess_difficulty_improved(given.sections, given.problem_id))

CallCategory ==
    /\ OnSections
    /\ Return("categorize_problem_improved", categorize_problem_improved(given.sections))

CallCategoryFirst ==
    /\ OnSections
    /\ Return("categorize_problem", categorize_problem(given.sections))

\* the ranges the improved script takes from the constraints text
CallRanges ==
    /\ OnSections
    /\ Return("ranges", ExtractRanges(DictGet(given.sections, "constraints", "")))

\* the tags the improved script generates; its sections dict has a title then
CallTags ==
    /\ OnSections
    /\ DictGet(given.sections, "title", "") # ""
    /\ Return("tags", GenerateTags(tag_keywords, given.sections))

\* the tags the first script generates; its sections dict has a title then
CallTagsFirst ==
    /\ OnSections
    /\ DictGet(given.sections, "title", "") # ""
    /\ Return("first tags", GenerateTags(first_tag_keywords, given.sections))

\* the texts of a sections dict of the first script are joins of stripped
\* parts: none has whitespace at its ends
CallExamplesFirst ==
    /\ OnSections
    /\ \A i \in 1..Len(given.sections) : given.sections[i].v = Strip(given.sections[i].v)
    /\ Return("extract_examples_from_sections",
              extract_examples_from_sections(given.sections))

CallConstraintsFirst ==
    /\ OnSections
    /\ Return("extract_constraints_from_sections",
              extract_constraints_from_sections(given.sections))

NextUnit ==
    \/ CallExtract
    \/ CallExtractFirst
    \/ CallTitle
    \/ CallSections
    \/ CallExamples
    \/ CallDifficulty
    \/ CallCategory
    \/ CallCategoryFirst
    \/ CallRanges
    \/ CallTags
    \/ CallTagsFirst
    \/ CallExamplesFirst
    \/ CallConstraintsFirst

SpecUnit == InitUnit /\ [][NextUnit]_vars

----------------------------------------------------------------------------
(* The properties of a call.                                               *)

Called(function) == applied # <<>> /\ applied[1].function = function

Returned == applied[1].value

GivenDocument == Content(given.content)

\* the text of the file
GivenText == Serialize(GivenDocument.soup)

\* empty or whitespace only
Blank(text) == \A i \in 1..Len(text) : Char(text, i) \in WhitespaceChars

\* the title extract_title_flexible resolves for the file
ResolvedTitle == extract_title_flexible(GivenDocument.soup)

\* the description extract_sections_from_html_improved assembles for the file
AssembledDescription ==
    DictGet(extract_sections_from_html_improved(GivenDocument.soup), "description", "")

\* the identifier of a problem file: its name without ".html"
Identifier(file_path) == SubSeq(file_path, 1, Len(file_path) - Len(".html"))

Indicator(condition) == IF condition THEN 1 ELSE 0

\* C1: on a file whose text is empty or only whitespace, extract_problem_improved
\* and extract_problem_from_html_file return None: no extraction step runs after
\* the read, and no error is printed.
C1_BlankFileIsAbsent ==
    ( /\ Called("extract_problem_improved") \/ Called("extract_problem_from_html_file")
      /\ GivenDocument.readable
      /\ Blank(GivenText) )
    => /\ Returned.problem = <<>>
       /\ Returned.ran = <<"open">>
       /\ Returned.printed = <<>>

\* extract_problem_improved was called on a file of whitespace
C1_Witness ==
    /\ Called("extract_problem_improved")
    /\ GivenDocument.readable
    /\ GivenText # "" /\ Blank(GivenText)
    /\ Returned.problem = <<>>

\* C2: on a file that is not blank and that can be read (no fault occurs),
\* extract_problem_improved returns None exactly when the resolved title and the
\* assembled description are both empty; with either of them it returns a record.
C2_AbsentIffNoContent ==
    ( /\ Called("extract_problem_improved")
      /\ GivenDocument.readable
      /\ ~Blank(GivenText) )
    => /\ Returned.printed = <<>>
       /\ (Returned.problem = <<>>) <=> (ResolvedTitle = "" /\ AssembledDescription = "")

\* a file with markup but neither title nor description was rejected
C2_Witness ==
    /\ Called("extract_problem_improved")
    /\ GivenDocument.readable
    /\ ~Blank(GivenText)
    /\ ResolvedTitle = "" /\ AssembledDescription = ""
    /\ Returned.problem = <<>>
    /\ Returned.ran = <<"open", "sections">>

\* C3: a record of extract_problem_improved never has an empty title, and when
\* no title strategy gave a title its title is "Problem " and the identifier.
C3_SyntheticTitle ==
    (Called("extract_problem_improved") /\ Returned.problem # <<>>)
    => /\ Returned.problem[1].basicInfo.title # ""
       /\ ResolvedTitle = ""
            => Returned.problem[1].basicInfo.title
                   = "Problem " \o Identifier(given.file_path)

\* a record was returned for a file in which no strategy found a title
C3_Witness ==
    /\ Called("extract_problem_improved")
    /\ Returned.problem # <<>>
    /\ ResolvedTitle = ""
    /\ AssembledDescription # ""

\* the confidence never goes down when one of the four conditions turns true
ConfidenceMonotone ==
    \A t, d, e, c \in BOOLEAN :
        /\ ConfidenceTenths(t, d, e, c) <= ConfidenceTenths(TRUE, d, e, c)
        /\ ConfidenceTenths(t, d, e, c) <= ConfidenceTenths(t, TRUE, e, c)
        /\ ConfidenceTenths(t, d, e, c) <= ConfidenceTenths(t, d, TRUE, c)
        /\ ConfidenceTenths(t, d, e, c) <= ConfidenceTenths(t, d, e, TRUE)
        /\ ConfidenceTenths(t, d, e, c) \in 0..10

\* C4: the confidence of a record of extract_problem_improved is, in tenths,
\* min(10, 5 + 1 [title] + 2 [description longer than 50 characters]
\* + 2 [a sample case] + 1 [constraints text]); it lies between 0 and 10 (0.0 and
\* 1.0) and never goes down when one of the four conditions turns true.
C4_Confidence ==
    /\ ConfidenceMonotone
    /\ (Called("extract_problem_improved") /\ Returned.problem # <<>>)
       => LET problem == Returned.problem[1]
              total == 5 + 1 * Indicator(problem.basicInfo.title # "")
                         + 2 * Indicator(Len(problem.basicInfo.description) > 50)
                         + 2 * Indicator(Len(problem.examples.sampleCases) >= 1)
                         + 1 * Indicator(problem.constraints.inputConstraints.description # "")
          IN  /\ problem.metadata.confidence = IF total > 10 THEN 10 ELSE total
              /\ problem.metadata.confidence \in 0..10

\* a record with all four conditions true: the sum 1.1 is capped at 1.0
C4_Witness ==
    /\ Called("extract_problem_improved")
    /\ Returned.problem # <<>>
    /\ Len(Returned.problem[1].basicInfo.description) > 50
    /\ Returned.problem[1].examples.sampleCases # <<>>
    /\ Returned.problem[1].constraints.inputConstraints.description # ""
    /\ Returned.problem[1].metadata.confidence = 10

\* how many of the keywords occur in one of the texts, in lowercase
HitsIn(keywords, texts) ==
    Cardinality({i \in 1..Len(keywords) :
                    \E j \in 1..Len(texts) : Contains(Lower(texts[j]), keywords[i])})

\* the ordered rule of the difficulty, on a title, a description, a constraints
\* text and an identifier
DifficultyRule(title_text, description_text, constraints_text, identifier) ==
    LET texts == <<title_text, description_text, constraints_text>>
        suffix == SubSeq(identifier, 2, Len(identifier))
        number == IF suffix # "" /\ \A i \in 1..Len(suffix) : Char(suffix, i) \in DigitChars
                  THEN ParseInt(suffix) ELSE 0
        easy == HitsIn(easy_keywords, texts)
        medium == HitsIn(medium_keywords, texts)
                    + Indicator(Contains(constraints_text, "10^6")
                                \/ Contains(constraints_text, "10^5"))
        hard == HitsIn(hard_keywords, texts)
                    + 2 * Indicator(Contains(constraints_text, "10^9")
                                    \/ Contains(constraints_text, "10^8"))
    IN  IF hard > 0 \/ number > 3500 THEN "Hard"
        ELSE IF medium > easy \/ number > 2000 THEN "Medium"
        ELSE "Easy"

\* C5: the difficulty is Hard if hard_score > 0 or the number of the identifier
\* is over 3500; otherwise Medium if medium_score > easy_score or the number is
\* over 2000; otherwise Easy.  The scores count the keywords that occur in the
\* lowercase title, description and constraints; "10^9" or "10^8" in the
\* constraints text adds to the hard score, "10^6" or "10^5" to the medium score;
\* the number is the integer after the first character of the identifier, 0
\* when that suffix is not all digits.
C5_DifficultyRule ==
    /\ Called("assess_difficulty_improved")
       => Returned = DifficultyRule(DictGet(given.sections, "title", ""),
                                    DictGet(given.sections, "description", ""),
                                    DictGet(given.sections, "constraints", ""),
                                    given.problem_id)
    /\ (Called("extract_problem_improved") /\ Returned.problem # <<>>)
       => LET problem == Returned.problem[1]
          IN  problem.basicInfo.difficulty
                = DifficultyRule(problem.basicInfo.title,
                                 problem.basicInfo.description,
                                 problem.constraints.inputConstraints.description,
                                 problem.basicInfo.questionId)

\* Medium by the scores alone, on an identifier at the medium threshold, and
\* "10^5" in the constraints text next to no hard keyword
C5_Witness ==
    /\ Called("assess_difficulty_improved")
    /\ given.problem_id = "p02000"
    /\ DictGet(given.sections, "constraints", "") = "N ~ 10^6"
    /\ DictGet(given.sections, "title", "") = "Hello"
    /\ ~DictHas(given.sections, "description")
    /\ Returned = "Medium"

\* the keywords of entry i of the table that occur in the content
Score(table, i, content) ==
    Cardinality({j \in 1..Len(table[i].v) : Contains(content, table[i].v[j])})

\* the first category of the table with the highest count, "Implementation"
\* when every count is zero
CategoryRule(table, content) ==
    LET best == {i \in 1..Len(table) :
                    \A j \in 1..Len(table) : Score(table, j, content) <= Score(table, i, content)}
        first == CHOOSE i \in best : \A j \in best : i <= j
    IN  IF \A i \in 1..Len(table) : Score(table, i, content) = 0
        THEN "Implementation"
        ELSE table[first].k

\* the content of categorize_problem_improved: title, then description
ImprovedContent ==
    Lower(DictGet(given.sections, "title", "") \o " "
          \o DictGet(given.sections, "description", ""))

\* the content of the first script: description, then title
FirstContent ==
    Lower(DictGet(given.sections, "description", "") \o " "
          \o DictGet(given.sections, "title", ""))

\* C6: categorize_problem_improved (and categorize_problem with its own table)
\* returns the category with the highest keyword-hit count over the lowercase
\* title and description; of several categories with the highest count, the one
\* that comes first in the category table; "Implementation" when every category
\* has zero hits.
C6_CategoryRule ==
    /\ Called("categorize_problem_improved")
       => Returned = CategoryRule(categories, ImprovedContent)
    /\ Called("categorize_problem")
       => Returned = CategoryRule(first_categories, FirstContent)

\* two categories share the highest count, and the earlier one was returned
C6_Witness ==
    /\ Called("categorize_problem_improved")
    /\ Score(categories, 2, ImprovedContent) = 1
    /\ Score(categories, 4, ImprovedContent) = 1
    /\ \A i \in 1..Len(categories) : Score(categories, i, ImprovedContent) <= 1
    /\ Returned = "Math & Logic"

\* the entries of the tag table of which a keyword occurs in the content
TagMatches(table, content) ==
    {i \in 1..Len(table) : \E j \in 1..Len(table[i].v) : Contains(content, table[i].v[j])}

\* tags holds exactly the tags of the matching entries, each once, in the order
\* of the table; without a match it is the single tag "implementation"
TagRule(tags, table, content) ==
    LET matching == TagMatches(table, content)
        Place(tag) == CHOOSE i \in 1..Len(table) : table[i].k = tag
    IN  /\ tags # <<>>
        /\ IF matching = {}
           THEN tags = <<"implementation">>
           ELSE /\ {tags[a] : a \in 1..Len(tags)} = {table[i].k : i \in matching}
                /\ \A a, b \in 1..Len(tags) : a < b => Place(tags[a]) < Place(tags[b])

\* C7: the tags of a record are never empty: a tag is there exactly when a
\* keyword of its set occurs in the lowercase title and description, the tags
\* are in the order of the tag table, and without any match the tags are the
\* single tag "implementation".  The title is the one of the sections dict.
C7_TagRule ==
    /\ Called("tags") => TagRule(Returned, tag_keywords, FirstContent)
    /\ Called("first tags") => TagRule(Returned, first_tag_keywords, FirstContent)
    /\ (Called("extract_problem_improved") /\ Returned.problem # <<>>)
       => TagRule(Returned.problem[1].basicInfo.tags, tag_keywords,
                  Lower(Returned.problem[1].basicInfo.description \o " "
                        \o Returned.problem[1].basicInfo.title))
    /\ (Called("extract_problem_from_html_file") /\ Returned.problem # <<>>)
       => TagRule(Returned.problem[1].basicInfo.tags, first_tag_keywords,
                  Lower(DictGet(Returned.found, "description", "") \o " "
                        \o DictGet(Returned.found, "title", "")))

\* a record of a file in which no keyword of the eight sets occurs
C7_Witness ==
    /\ Called("extract_problem_improved")
    /\ Returned.problem # <<>>
    /\ TagMatches(tag_keywords,
                  Lower(Returned.problem[1].basicInfo.description \o " "
                        \o Returned.problem[1].basicInfo.title)) = {}
    /\ Returned.problem[1].basicInfo.tags = <<"implementation">>

\* text without the whitespace at its two ends
Trimmed(text) ==
    LET inside == {i \in 1..Len(text) : Char(text, i) \notin WhitespaceChars}
    IN  IF inside = {} THEN ""
        ELSE SubSeq(text, CHOOSE i \in inside : \A j \in inside : i <= j,
                          CHOOSE i \in inside : \A j \in inside : j <= i)

\* C8: with a "sample input" and a "sample output" section in the sections
\* dict, both non-empty after trimming, extract_examples_improved returns
\* exactly one sample case, of the trimmed texts and the explanation ""; in
\* every other case it returns at most one sample case.
C8_SampleCase ==
    Called("extract_examples_improved")
    => /\ Len(Returned.sampleCases) <= 1
       /\ ( /\ DictHas(given.sections, "sample input")
            /\ DictHas(given.sections, "sample output")
            /\ Trimmed(DictGet(given.sections, "sample input", "")) # ""
            /\ Trimmed(DictGet(given.sections, "sample output", "")) # "" )
          => Returned.sampleCases
               = <<[input |-> Trimmed(DictGet(given.sections, "sample input", "")),
                    output |-> Trimmed(DictGet(given.sections, "sample output", "")),
                    explanation |-> ""]>>

\* the sample texts had whitespace at their ends, and the case has them trimmed
C8_Witness ==
    /\ Called("extract_examples_improved")
    /\ DictGet(given.sections, "sample input", "") = " 3 4\n"
    /\ DictGet(given.sections, "sample output", "") = "7 "
    /\ Returned.sampleCases = <<[input |-> "3 4", output |-> "7", explanation |-> ""]>>

\* what extract_problem_improved returns for the i-th document of the order
LoopResult(order, i) == Extracted[order[i]][disk[order[i]]]

\* order holds the files glob listed, each once, the lesser name first
IsSortedListing(order) ==
    /\ Len(order) = Len(html_files)
    /\ {order[i] : i \in 1..Len(order)} = {html_files[i] : i \in 1..Len(html_files)}
    /\ \A i, j \in 1..Len(order) : i < j => StrLess(order[i], order[j])

\* the loop has taken the first processed documents of the order, and every
\* one of them gave its record or one skip
LoopProgress(order) ==
    /\ processed \in 0..Len(order)
    /\ todo = SubSeq(order, processed + 1, Len(order))
    /\ problems = Flatten([i \in 1..processed |-> LoopResult(order, i).problem])
    /\ skipped = Cardinality({i \in 1..processed : LoopResult(order, i).problem = <<>>})
    /\ Len(problems) + skipped = processed

\* C9: in a run of the improved script over N documents a fault or a rejection
\* on one document never stops the loop: the documents are processed once each
\* in sorted order, each one appends one record or counts one skip, the records
\* are in the order of processing, and when the loop has ended the records and
\* the skips together are N.
C9_BatchLoop ==
    (script = "improved" /\ problems_dir_exists /\ pc # "start")
    => LET order == sorted(html_files)
       IN  /\ IsSortedListing(order)
           /\ LoopProgress(order)
           /\ (pc = "loop" /\ todo # <<>>) => ENABLED ProcessFile
           /\ pc = "done" => /\ processed = Len(html_files)
                             /\ Len(problems) + skipped = Len(html_files)

\* the loop has ended over files that glob listed out of order; the first
\* document could not be read, a later one gave a record
C9_Witness ==
    /\ script = "improved"
    /\ pc = "done"
    /\ Len(html_files) >= 2
    /\ LET order == sorted(html_files)
       IN  /\ html_files # order
           /\ LoopResult(order, 1).printed # <<>>
    /\ printed # <<>>
    /\ skipped >= 1
    /\ Len(problems) >= 1

\* the texts of the matches of one pattern
MatchesOf(pat, text) ==
    LET matches == findall(pat, text)
    IN  [i \in 1..Len(matches) |-> Join(" ", matches[i])]

\* every match of the double-bounded pattern, then of the upper-bound pattern,
\* then of the lower-bound pattern, joined by "; "
RangesRule(text) ==
    Join("; ", MatchesOf(PatternBoth, text) \o MatchesOf(PatternUpper, text)
               \o MatchesOf(PatternLower, text))

\* the constraints text and the ranges of the call
RangesExample(text, ranges) ==
    /\ (Called("ranges") /\ DictGet(given.sections, "constraints", "") = text)
       => Returned = ranges
    /\ (Called("extract_constraints_from_sections")
        /\ DictGet(given.sections, "constraints", "") = text)
       => Returned.inputConstraints.ranges = ranges

\* C10: for a constraints text that is not empty, the ranges string is every
\* match of the double-bounded pattern, then every match of the upper-bound
\* pattern, then every match of the lower-bound pattern, joined by semicolons
\* ("; "); a match that more than one pattern finds is kept each time, a match
\* of two groups gives its two numbers joined by one space, and the ranges are
\* the empty string when no pattern matches.
C10_Ranges ==
    /\ (Called("ranges") /\ DictGet(given.sections, "constraints", "") # "")
       => Returned = RangesRule(DictGet(given.sections, "constraints", ""))
    /\ (Called("extract_constraints_from_sections")
        /\ DictGet(given.sections, "constraints", "") # "")
       => Returned.inputConstraints.ranges
            = RangesRule(DictGet(given.sections, "constraints", ""))
    /\ RangesExample("1 ~ N ~ 100", "1 100; 100; 1")
    /\ RangesExample("1 ~ N ~ 100\n2 < M < 50", "1 100; 2 50; 100; 50; 1; 2")
    /\ RangesExample("N ~ 10^6", "10")
    /\ RangesExample("no limits", "")

\* one bound pair that all three patterns find: kept three times
C10_Witness ==
    /\ Called("ranges")
    /\ DictGet(given.sections, "constraints", "") = "1 ~ N ~ 100"
    /\ Returned = "1 100; 100; 1"

\* the document of the call, parsed
GivenSoup == GivenDocument.soup

\* what the four title strategies give, in the order of the cascade
TitleStrategies ==
    << TitleFromH1(GivenSoup), TitleFromProblemStatement(GivenSoup),
       TitleFromHeadings(GivenSoup), TitleFromComments(extract_from_comments(GivenSoup)) >>

\* the first text of texts that is not empty, "" when all are
FirstNonEmpty(texts) ==
    LET full == {i \in 1..Len(texts) : texts[i] # ""}
    IN  IF full = {} THEN "" ELSE texts[CHOOSE i \in full : \A j \in full : i <= j]

\* the place of the first h1 of the document, 0 without one
PrimaryHeading ==
    LET h1s == {i \in 1..Len(GivenSoup) : GivenSoup[i].tag = "h1"}
    IN  IF h1s = {} THEN 0 ELSE CHOOSE i \in h1s : \A j \in h1s : i <= j

\* text is in one line, with no space at its ends and no two spaces in a row
IsNormalized(text) ==
    /\ text = Trimmed(text)
    /\ ~Contains(text, "\n")
    /\ ~Contains(text, "  ")

\* the letters of a text: what normalizing keeps
Letters(text) == SelectSeq([i \in 1..Len(text) |-> Char(text, i)],
                           LAMBDA c : c \notin WhitespaceChars)

\* C11: extract_title_flexible takes its four strategies in the order primary
\* heading, line near a "Problem Statement" heading, heading scan with the
\* stoplist, fragment of the comments, and returns the first result that is
\* not empty: with a primary heading that has text the title is the normalized
\* text of that heading, and the title is empty only when all four strategies
\* give nothing.
C11_TitleCascade ==
    Called("extract_title_flexible")
    => /\ Returned = FirstNonEmpty(TitleStrategies)
       /\ (Returned = "") <=> (\A i \in 1..4 : TitleStrategies[i] = "")
       /\ (PrimaryHeading # 0 /\ Trimmed(GivenSoup[PrimaryHeading].text) # "")
          => /\ IsNormalized(Returned)
             /\ Letters(Returned) = Letters(GivenSoup[PrimaryHeading].text)
       /\ GivenSoup = <<Element("h1", " Add  Two\n Numbers ")>>
          => Returned = "Add Two Numbers"

\* a file for which the primary heading, the line near "Problem Statement" and
\* the comments give three different titles: that of the heading was returned
C11_Witness ==
    /\ Called("extract_title_flexible")
    /\ \A i \in 1..4 : TitleStrategies[i] # ""
    /\ TitleStrategies[1] # TitleStrategies[2]
    /\ TitleStrategies[1] # TitleStrategies[4]
    /\ Returned = "Median"

\* the description parts collected directly from the p and div blocks
DirectParts == DescriptionFromBlocks(GivenSoup)

\* the directly collected description text
DirectText == Join(" ", DirectParts)

\* what extract_from_comments gives for the document
Harvest == extract_from_comments(GivenSoup)

\* the parts that follow a "Problem Statement" heading
StatementParts == DescriptionFromProblemStatement(GivenSoup, <<>>)

\* the description of the sections dict returned
ReturnedDescription == DictGet(Returned, "description", "")

\* C12 as claimed: with a directly collected text shorter than 50 characters
\* and comments found, the comment text takes the place of the directly
\* collected text in the description, which does not remain; with 50
\* characters or more the comment text is not used.
C12_Replaced ==
    Called("extract_sections_from_html_improved")
    => /\ (Len(DirectText) < 50 /\ Harvest # "")
          => ReturnedDescription = Join(" ", <<Harvest>> \o StatementParts)
       /\ Len(DirectText) >= 50
          => ReturnedDescription = Join(" ", DirectParts \o StatementParts)

\* C12, amended: with a directly collected text shorter than 50 characters and
\* comments found, the comment text is appended to the directly collected
\* text, which remains at the start of the description; with 50 characters or
\* more the comment text is not used for the description.
C12_Appended ==
    Called("extract_sections_from_html_improved")
    => /\ (Len(DirectText) < 50 /\ Harvest # "")
          => ReturnedDescription = Join(" ", DirectParts \o <<Harvest>> \o StatementParts)
       /\ Len(DirectText) >= 50
          => ReturnedDescription = Join(" ", DirectParts \o StatementParts)

\* a short directly collected text and comments: the description holds both
C12_Witness ==
    /\ Called("extract_sections_from_html_improved")
    /\ DirectText = "Add them."
    /\ Harvest = "Compute the total of all the values given."
    /\ ReturnedDescription = "Add them. Compute the total of all the values given."

\* C13: extract_examples_improved uses the "input" and "output" sections only
\* as a pair, when there is no sample section: with a "sample input" or a
\* "sample output" key in the sections dict, a sample case returned never has
\* its input or its output taken from the "input" or "output" section, so it
\* has both sample sections behind it.
C13_FallbackAsPair ==
    ( /\ Called("extract_examples_improved")
      /\ DictHas(given.sections, "sample input") \/ DictHas(given.sections, "sample output")
      /\ Returned.sampleCases # <<>> )
    => /\ DictHas(given.sections, "sample input")
       /\ DictHas(given.sections, "sample output")
       /\ Returned.sampleCases[1].input
            = Trimmed(DictGet(given.sections, "sample input", ""))
       /\ Returned.sampleCases[1].output
            = Trimmed(DictGet(given.sections, "sample output", ""))

\* the keys of the sections dict given that have text in them, in lowercase,
\* in the order of the dict
KeysWith(text) ==
    SelectSeq(DictKeys(given.sections), LAMBDA k : Contains(Lower(k), text))

SampleInputKeys == KeysWith("sample input")

SampleOutputKeys ==
    SelectSeq(DictKeys(given.sections),
              LAMBDA k : Contains(Lower(k), "output for") \/ Contains(Lower(k), "sample output"))

\* the trimmed text under the i-th sample input key
PairInput(i) == Trimmed(DictGet(given.sections, SampleInputKeys[i], ""))

\* the trimmed text under the i-th sample output key, "" without such a key
PairOutput(i) ==
    IF i <= Len(SampleOutputKeys)
    THEN Trimmed(DictGet(given.sections, SampleOutputKeys[i], "")) ELSE ""

\* the sample cases are the pairs of the places in kept, in their order
CasesAre(cases, kept) ==
    /\ Len(cases) = Cardinality(kept)
    /\ \A i \in kept :
          cases[Cardinality({j \in kept : j <= i})]
            = [input |-> PairInput(i), output |-> PairOutput(i), explanation |-> ""]

\* C14 as claimed: the i-th sample input key is paired with the i-th sample
\* output key, every input beyond the output keys is emitted with an empty
\* output and not dropped, and there are no more cases than sample input keys.
C14_SurplusAlwaysEmitted ==
    Called("extract_examples_from_sections")
    => /\ Len(Returned.sampleCases) <= Len(SampleInputKeys)
       /\ CasesAre(Returned.sampleCases,
                   {i \in 1..Len(SampleInputKeys) :
                       \/ i > Len(SampleOutputKeys)
                       \/ PairInput(i) # "" \/ PairOutput(i) # ""})

\* C14, amended: the i-th key containing "sample input" is paired with the i-th
\* key containing "sample output" or "output for", in the order of the dict;
\* a pair of two empty texts gives no case; an input beyond the output keys is
\* emitted with an empty output when its own text is not empty, and dropped
\* when it is; there are never more cases than sample input keys.
C14_PairedByPosition ==
    Called("extract_examples_from_sections")
    => /\ Len(Returned.sampleCases) <= Len(SampleInputKeys)
       /\ CasesAre(Returned.sampleCases,
                   {i \in 1..Len(SampleInputKeys) : PairInput(i) # "" \/ PairOutput(i) # ""})

\* two sample inputs and one sample output: the second input came out with
\* an empty output
C14_Witness ==
    /\ Called("extract_examples_from_sections")
    /\ Len(SampleInputKeys) = 2
    /\ Len(SampleOutputKeys) = 1
    /\ Returned.sampleCases
         = << [input |-> "1 2", output |-> "3", explanation |-> ""],
              [input |-> "4 5", output |-> "", explanation |-> ""] >>

\* the place of the first h2 or h3 of the document whose string has name,
\* whatever the case of the letters; 0 without one
MatchedHeading(name) ==
    LET hits == {i \in 1..Len(GivenSoup) :
                    /\ GivenSoup[i].tag \in {"h2", "h3"}
                    /\ GivenSoup[i].text # ""
                    /\ Contains(Lower(GivenSoup[i].text), Lower(name))}
    IN  IF hits = {} THEN 0 ELSE CHOOSE i \in hits : \A j \in hits : i <= j

\* the headings that end the section of the heading at place h: with levels,
\* those of its level or above; without, every h2 and h3
EndingTags(h, levels) ==
    IF ~levels THEN {"h2", "h3"}
    ELSE IF GivenSoup[h].tag = "h2" THEN {"h1", "h2"}
    ELSE {"h1", "h2", "h3"}

\* the trimmed texts, those not empty, of the nodes after place h and before
\* the first node after h that ends the section
ContentAfter(h, levels) ==
    LET ends == {i \in (h + 1)..Len(GivenSoup) : GivenSoup[i].tag \in EndingTags(h, levels)}
        final == IF ends = {} THEN Len(GivenSoup)
                 ELSE (CHOOSE i \in ends : \A j \in ends : i <= j) - 1
        texts == [i \in 1..(final - h) |-> Trimmed(GetText(GivenSoup[h + i]))]
    IN  SelectSeq(texts, LAMBDA t : t # "")

\* what the heading scan gives for the names of one section key: the content
\* of the first name whose heading has content, <<>> when no name has
ScanOf(names, levels) ==
    LET ContentOf(j) == IF MatchedHeading(names[j]) = 0 THEN <<>>
                        ELSE ContentAfter(MatchedHeading(names[j]), levels)
        good == {j \in 1..Len(names) : ContentOf(j) # <<>>}
    IN  IF good = {} THEN <<>>
        ELSE ContentOf(CHOOSE j \in good : \A i \in good : j <= i)

\* every section key of the dict returned holds what the heading scan gives,
\* joined with spaces, and is absent when the scan gives nothing
SectionsAre(levels) ==
    \A m \in 1..Len(section_mappings) :
        LET content == ScanOf(section_mappings[m].v, levels)
        IN  IF content = <<>> THEN ~DictHas(Returned, section_mappings[m].k)
            ELSE /\ DictHas(Returned, section_mappings[m].k)
                 /\ DictGet(Returned, section_mappings[m].k, "") = Join(" ", content)

\* C15 as claimed: the section of a key is the sibling content after the
\* matched heading up to, not including, the next heading of the same or a
\* higher level; what follows an h3 after a matched h2 is part of the section.
C15_EndsAtSameOrHigherLevel ==
    Called("extract_sections_from_html_improved") => SectionsAre(TRUE)

\* C15, amended: the section of a key is the sibling content after the matched
\* heading up to, not including, the next h2 or h3, whatever the level of the
\* matched heading: an h3 after a matched h2 ends the section, and an h1 does
\* not end it.
C15_EndsAtNextH2OrH3 ==
    Called("extract_sections_from_html_improved") => SectionsAre(FALSE)

\* an h3 follows the matched h2 "Input": the section ends before it
C15_Witness ==
    /\ Called("extract_sections_from_html_improved")
    /\ MatchedHeading("Input") # 0
    /\ GivenSoup[MatchedHeading("Input")].tag = "h2"
    /\ \E i \in (MatchedHeading("Input") + 1)..Len(GivenSoup) :
          /\ GivenSoup[i] = Element("h3", "Format")
          /\ \A j \in (MatchedHeading("Input") + 1)..i : GivenSoup[j].tag # "h2"
    /\ DictGet(Returned, "input", "") = "First line."

\* C16: every record of extract_problem_improved has a confidence of at least
\* 0.6 (6 tenths), its title being there when the score is computed, and so
\* the 'low' bucket of the final tally is 0 after a batch run.
C16_NoLowConfidence ==
    script = "improved"
    => /\ \A i \in 1..Len(problems) :
             /\ problems[i].basicInfo.title # ""
             /\ problems[i].metadata.confidence >= 6
       /\ summary # <<>>
          => /\ summary[1].confidence_levels.low = 0
             /\ summary[1].confidence_levels.high + summary[1].confidence_levels.medium
                  = Len(problems)

\* a run has ended with a record that has nothing but its synthetic title and
\* a short description: its confidence is 0.6, in the 'medium' bucket
C16_Witness ==
    /\ script = "improved"
    /\ pc = "done"
    /\ summary # <<>>
    /\ \E i \in 1..Len(problems) :
          /\ problems[i].metadata.confidence = 6
          /\ problems[i].basicInfo.title = "Problem " \o problems[i].basicInfo.questionId
    /\ summary[1].confidence_levels.medium >= 1
    /\ summary[1].confidence_levels.low = 0
====
